---- MODULE Spec2Model ----
(***************************************************************************)
(* Pod-session reconcilers of kube/kmux: Logger.Log (log following) and    *)
(* the per-target closure of portForwardCmd.RunE (port forwarding).        *)
(* One run of the process executes one of the two commands.  The event     *)
(* loop of the reconciler is a single consumer of the watch channel; the   *)
(* bodies handed to concurrent.Simple.Go run as goroutines interleaved     *)
(* with it.                                                                *)
(***************************************************************************)
EXTENDS Integers, Sequences, FiniteSets, TLC

\* ------------------------------------------------------------------ bounds
MaxEvents == 3          \* events taken from the watch channel in one run
MaxStreams == 3         \* goroutines Logger.Log starts in one run
NumPorts == 2           \* local ports the OS can hand out
MaxLines == 2           \* lines of one log read by outputLog
NumColors == 3          \* colours ColorOfJSON can give a line
MaxConns == 2           \* connections the forwarding pool relays at a time
MaxTunnels == 3         \* tunnels started in one run, one local port per pod
MaxEnv == 2             \* environment variables of a container

Ports == 1..NumPorts

\* The pods the watch reports, by UID, and the containers of a pod in the
\* order of pod.Spec (init containers first).
UIDs == {"uid-a", "uid-b"}
ContainerSeq == <<"init", "app">>
Containers == {ContainerSeq[i] : i \in 1..Len(ContainerSeq)}

None == 0               \* no entry in a sync.Map, no port
NoUID == ""             \* no pod

\* ------------------------------------------------- Kubernetes constants
Added == "ADDED"
Modified == "MODIFIED"
Deleted == "DELETED"
Error == "ERROR"
EventTypes == {Added, Modified, Deleted, Error}

PodPending == "Pending"
PodRunning == "Running"
PodSucceeded == "Succeeded"
PodFailed == "Failed"
PodUnknown == "Unknown"
Phases == {PodPending, PodRunning, PodSucceeded, PodFailed, PodUnknown}

PodEvents == [type : EventTypes, uid : UIDs, phase : Phases]

VARIABLES
    cmd,              \* "log" or "forward": the command this process runs
    pc,               \* position of the reconcile call
    err,              \* what the reconcile call returned
    ctxDone,          \* ctx has been cancelled
    nEvents,          \* number of events received so far
    deleting,         \* UID Logger.Log is about to Delete from activeStreams
    selected,         \* containers matched by l.containerRegexp
    activeStreams,    \* sync.Map of Logger.Log: UID -> CancelFunc (stream id)
    streaming,        \* goroutines started with streaming.Go, in start order
    cancelled,        \* stream ids whose CancelFunc has been called
    activeForwarding, \* sync.Map of port-forward: UID -> stop channel (id)
    forwarding,       \* goroutines started with forwarding.Go, in start order
    closed,           \* tunnel ids whose stop channel has been closed
    pool,             \* backends of the forwarding pool (local ports)
    firstPhase,       \* history of Logger.Log: phase of each pod in the
                      \* first event received for it
    scenario,         \* history of Logger.Log: progress of each pod along
                      \* Added(Pending), Modified(Running), Deleted(Running)
    terminated,       \* history of Logger.Log: pods whose tracked session
                      \* was cancelled and removed on a Succeeded or Failed
                      \* phase
    history,          \* whether this run records firstPhase, scenario and
                      \* terminated
    runE,             \* position of portForwardCmd.RunE around clients.Execute
    runErr,           \* what RunE returned
    poolStopped,      \* pool.Start(ctx) has returned: pool.Done() is closed
    scan,             \* one call of outputLog: the Logger's filters, the
                      \* lines left in the reader, what was done with each
                      \* line scanned so far
    exec,             \* one call of clients.Execute with several targets:
                      \* the closure's position, result, tracking map and
                      \* session group for each target
    conns,            \* the relays of the forwarding pool, one per
                      \* connection it accepted: the backend it is bound
                      \* to, whether it is open, and the backends removed
                      \* before it was accepted
    job,              \* restart of a job, for each target: where the
                      \* closure of restartCmd is, what it returned, whether
                      \* the job exists on the cluster
    env,              \* one call of getEnv: the container's Env, the
                      \* configmaps and secrets fetched, the inline values
                      \* computed so far
    ranged,           \* the keys activeForwarding.Range has visited
    forwardStop,      \* the stop channel the loop or Range has loaded and
                      \* is about to close
    dryRun,           \* Logger.dryRun, set by WithDryRun
    found,            \* the pod/container pairs reported as "Found!"
    ports             \* the port-forward variant with one local port per
                      \* pod: RunE's localPort (counted from the parsed
                      \* <local_port>), each target's closure between the
                      \* read and the write of localPort += 1, and the ports
                      \* passed to handleForwardPod, in order

vars == <<cmd, pc, err, ctxDone, nEvents, deleting, selected, activeStreams,
          streaming, cancelled, activeForwarding, forwarding, closed, pool,
          firstPhase, scenario, history, runE, runErr, poolStopped, scan,
          exec, conns, terminated, ports, job, env, dryRun, found,
          ranged, forwardStop>>

runVars == <<runE, runErr, poolStopped>>
otherVars ==
    <<scan, exec, conns, terminated, ports, job, env, dryRun, found,
      ranged, forwardStop>>

logVars == <<activeStreams, streaming, cancelled>>
fwdVars == <<activeForwarding, forwarding, closed, pool>>

\* ----------------------------------------------------------------- helpers
\* concurrent.Simple: Wait returns once every function given to Go returned.
SimpleDone(group) == \A i \in 1..Len(group) : group[i].pc = "done"

IsContainerSelected(c) == c \in selected

\* tcpool.Pool: the backends are a set of addresses.
PoolAdd(backends, backend) == backends \cup {backend}
PoolRemove(backends, backend) == backends \ {backend}

\* history of the events of one pod
FirstPhaseAfter(e) ==
    IF history /\ firstPhase[e.uid] = ""
    THEN [firstPhase EXCEPT ![e.uid] = e.phase]
    ELSE firstPhase

ScenarioStep(s, e) ==
    IF s = 0 /\ e.type = Added /\ e.phase = PodPending THEN 1
    ELSE IF s = 1 /\ e.type = Modified /\ e.phase = PodRunning THEN 2
    ELSE IF s = 2 /\ e.type = Deleted /\ e.phase = PodRunning THEN 3
    ELSE 4

ScenarioAfter(e) ==
    IF history
    THEN [scenario EXCEPT ![e.uid] = ScenarioStep(scenario[e.uid], e)]
    ELSE scenario

\* The loop takes one more event from podWatcher.ResultChan().
Receive ==
    /\ pc = "loop"
    /\ nEvents < MaxEvents
    /\ nEvents' = nEvents + 1

\* ------------------------------------------------------- Logger.outputLog
\* A line of the reader, by what the libraries say of it: the colour
\* ColorOfJSON gives it (None: no colour) and whether l.logRegexp matches it.
Colors == 1..NumColors
Lines == [color : Colors \cup {None}, match : BOOLEAN]

\* The filters of a Logger: colorFilter (None: no threshold), whether
\* logRegexp is set, invertRegexp.
Loggers == [colorFilter : Colors \cup {None}, logRegexp : BOOLEAN,
            invertRegexp : BOOLEAN]

\* colorIsGreater: the colour of the line is above the threshold.
colorIsGreater(color, colorFilter) ==
    colorFilter # None /\ color # None /\ color > colorFilter

\* The test of outputLog on the result of l.logRegexp.MatchString: as it
\* would be if invertRegexp were not looked at ...
RegexpSkipsNoInvert(match, invertRegexp) == ~match

\* ... and as it is.
RegexpSkips(match, invertRegexp) ==
    (match /\ invertRegexp) \/ (~invertRegexp /\ ~match)

\* The body of the scanner loop of outputLog for one line: whether
\* MatchString was called on it and what was written with outputter.Std.
outputLog(l, text) ==
    IF colorIsGreater(text.color, l.colorFilter)
    THEN [line |-> text, matched |-> FALSE, std |-> "-"]
    ELSE IF ~l.logRegexp
    THEN [line |-> text, matched |-> FALSE, std |-> "Format"]
    ELSE IF RegexpSkips(text.match, l.invertRegexp)
    THEN [line |-> text, matched |-> TRUE, std |-> "-"]
    ELSE [line |-> text, matched |-> TRUE, std |-> "FormatGrep"]

NoScan == [logger |-> [colorFilter |-> None, logRegexp |-> FALSE,
                       invertRegexp |-> FALSE],
           reader |-> <<>>, done |-> <<>>]

\* streamScanner.Scan() gives the next line and the loop body handles it.
ScanLine ==
    /\ scan.reader # <<>>
    /\ scan' = [scan EXCEPT
           !.reader = Tail(scan.reader),
           !.done = Append(scan.done,
                           outputLog(scan.logger, Head(scan.reader)))]
    /\ UNCHANGED <<cmd, pc, err, ctxDone, nEvents, deleting, selected,
                   logVars, fwdVars, firstPhase, scenario, history, runVars,
                   exec, conns, terminated, ports, job, env, dryRun, found,
                   ranged, forwardStop>>

\* -------------------------------------------------------- clients.Execute
\* The clusters the command is run against.
Targets == {"one", "two", "three"}

\* The clusters of a port-forward run whose closures are followed step by
\* step.
ExecTargets == {"one", "two"}

\* No call of clients.Execute with several targets is modelled in this run.
NoExec == [done |-> TRUE, closure |-> <<>>]

\* The closure given to clients.Execute, for target t: its position, what it
\* returned, its local activeForwarding and forwarding, the pods whose stop
\* channel is closed, the keys its Range has visited and the stop channel it
\* has loaded and is about to close: <<>> for none, else the pod and whether
\* the channel was closed already when it was loaded.
ClosureStart ==
    [pc |-> "watch", err |-> "none", activeForwarding |-> {},
     forwarding |-> {}, closed |-> {}, ranged |-> {}, forwardStop |-> <<>>]

\* close of a closed channel in the closure of one target: the panic is not
\* recovered and ends the process, the closures of all targets with it.
ExecPanic == [exec EXCEPT !.closure = [t \in ExecTargets |->
                               [exec.closure[t] EXCEPT !.pc = "panic",
                                                       !.forwardStop = <<>>]]]

\* close(forwardStop) in the closure of target t, back to position next: a
\* channel closed already panics; the close is seen in the closure's state
\* only while the tunnel of the pod still runs.
closeStop(t, next) ==
    LET stop == exec.closure[t].forwardStop
    IN  IF stop[2]
        THEN ExecPanic
        ELSE [exec EXCEPT
                 !.closure[t].pc = next,
                 !.closure[t].forwardStop = <<>>,
                 !.closure[t].closed =
                     IF stop[1] \in exec.closure[t].forwarding
                     THEN @ \cup {stop[1]} ELSE @]

\* resource.WatchPods fails for target t: its closure returns the error.
TargetWatchFail(t) ==
    /\ ~exec.done
    /\ exec.closure[t].pc = "watch"
    /\ exec' = [exec EXCEPT !.closure[t].pc = "returned",
                            !.closure[t].err = "error"]
    /\ UNCHANGED <<cmd, pc, err, ctxDone, nEvents, deleting, selected,
                   logVars, fwdVars, firstPhase, scenario, history, runVars,
                   scan, conns, terminated, ports, job, env, dryRun, found,
                   ranged, forwardStop>>

\* resource.WatchPods succeeds for target t.
TargetWatch(t) ==
    /\ ~exec.done
    /\ exec.closure[t].pc = "watch"
    /\ exec' = [exec EXCEPT !.closure[t].pc = "loop"]
    /\ UNCHANGED <<cmd, pc, err, ctxDone, nEvents, deleting, selected,
                   logVars, fwdVars, firstPhase, scenario, history, runVars,
                   scan, conns, terminated, ports, job, env, dryRun, found,
                   ranged, forwardStop>>

\* Target t's loop gets a Running pod it does not track: handleForwardPod
\* stores it in the closure's map and starts a goroutine in its group.
TargetStart(t, u) ==
    /\ ~exec.done
    /\ exec.closure[t].pc = "loop"
    /\ u \notin exec.closure[t].activeForwarding
    /\ exec' = [exec EXCEPT
           !.closure[t].activeForwarding = @ \cup {u},
           !.closure[t].forwarding = @ \cup {u}]
    /\ UNCHANGED <<cmd, pc, err, ctxDone, nEvents, deleting, selected,
                   logVars, fwdVars, firstPhase, scenario, history, runVars,
                   scan, conns, terminated, ports, job, env, dryRun, found,
                   ranged, forwardStop>>

\* Target t's loop gets a Deleted, Succeeded or Failed pod it tracks: it
\* loads the stop channel of the pod.
TargetLoad(t, u) ==
    /\ ~exec.done
    /\ exec.closure[t].pc = "loop"
    /\ u \in exec.closure[t].activeForwarding
    /\ exec' = [exec EXCEPT
           !.closure[t].pc = "close",
           !.closure[t].forwardStop = <<u, u \in exec.closure[t].closed>>]
    /\ UNCHANGED <<cmd, pc, err, ctxDone, nEvents, deleting, selected,
                   logVars, fwdVars, firstPhase, scenario, history, runVars,
                   scan, conns, terminated, ports, job, env, dryRun, found,
                   ranged, forwardStop>>

\* Target t's loop closes the stop channel it loaded, closed already or not,
\* whatever the tunnel has done since.
TargetClose(t) ==
    /\ ~exec.done
    /\ exec.closure[t].pc = "close"
    /\ exec' = closeStop(t, "loop")
    /\ UNCHANGED <<cmd, pc, err, ctxDone, nEvents, deleting, selected,
                   logVars, fwdVars, firstPhase, scenario, history, runVars,
                   scan, conns, terminated, ports, job, env, dryRun, found,
                   ranged, forwardStop>>

\* A tunnel goroutine of target t ends: its deferred Delete runs.
TargetSessionEnd(t, u) ==
    /\ ~exec.done
    /\ exec.closure[t].pc # "panic"
    /\ u \in exec.closure[t].forwarding
    /\ exec' = [exec EXCEPT
           !.closure[t].activeForwarding = @ \ {u},
           !.closure[t].forwarding = @ \ {u},
           !.closure[t].closed = @ \ {u}]
    /\ UNCHANGED <<cmd, pc, err, ctxDone, nEvents, deleting, selected,
                   logVars, fwdVars, firstPhase, scenario, history, runVars,
                   scan, conns, terminated, ports, job, env, dryRun, found,
                   ranged, forwardStop>>

\* The watch channel of target t is closed: its closure leaves the loop and
\* starts activeForwarding.Range.
TargetStreamEnd(t) ==
    /\ ~exec.done
    /\ exec.closure[t].pc = "loop"
    /\ exec' = [exec EXCEPT !.closure[t].pc = "range"]
    /\ UNCHANGED <<cmd, pc, err, ctxDone, nEvents, deleting, selected,
                   logVars, fwdVars, firstPhase, scenario, history, runVars,
                   scan, conns, terminated, ports, job, env, dryRun, found,
                   ranged, forwardStop>>

\* Range of target t visits the entry of u and loads its stop channel.
TargetRangeLoad(t, u) ==
    /\ ~exec.done
    /\ exec.closure[t].pc = "range"
    /\ u \in exec.closure[t].activeForwarding \ exec.closure[t].ranged
    /\ exec' = [exec EXCEPT
           !.closure[t].pc = "rangeClose",
           !.closure[t].ranged = @ \cup {u},
           !.closure[t].forwardStop = <<u, u \in exec.closure[t].closed>>]
    /\ UNCHANGED <<cmd, pc, err, ctxDone, nEvents, deleting, selected,
                   logVars, fwdVars, firstPhase, scenario, history, runVars,
                   scan, conns, terminated, ports, job, env, dryRun, found,
                   ranged, forwardStop>>

\* The callback of target t's Range closes the channel it was given,
\* whatever the tunnel has done since.
TargetRangeClose(t) ==
    /\ ~exec.done
    /\ exec.closure[t].pc = "rangeClose"
    /\ exec' = closeStop(t, "range")
    /\ UNCHANGED <<cmd, pc, err, ctxDone, nEvents, deleting, selected,
                   logVars, fwdVars, firstPhase, scenario, history, runVars,
                   scan, conns, terminated, ports, job, env, dryRun, found,
                   ranged, forwardStop>>

\* Range of target t has visited every entry: forwarding.Wait() is next.
TargetRangeEnd(t) ==
    /\ ~exec.done
    /\ exec.closure[t].pc = "range"
    /\ exec.closure[t].activeForwarding \subseteq exec.closure[t].ranged
    /\ exec' = [exec EXCEPT !.closure[t].pc = "wait",
                            !.closure[t].ranged = {}]
    /\ UNCHANGED <<cmd, pc, err, ctxDone, nEvents, deleting, selected,
                   logVars, fwdVars, firstPhase, scenario, history, runVars,
                   scan, conns, terminated, ports, job, env, dryRun, found,
                   ranged, forwardStop>>

\* forwarding.Wait() returns for target t: its closure returns nil.
TargetReturn(t) ==
    /\ ~exec.done
    /\ exec.closure[t].pc = "wait"
    /\ exec.closure[t].forwarding = {}
    /\ exec' = [exec EXCEPT !.closure[t].pc = "returned",
                            !.closure[t].err = "nil"]
    /\ UNCHANGED <<cmd, pc, err, ctxDone, nEvents, deleting, selected,
                   logVars, fwdVars, firstPhase, scenario, history, runVars,
                   scan, conns, terminated, ports, job, env, dryRun, found,
                   ranged, forwardStop>>

\* The interrupt handler cancels the context all the closures share.
ExecuteCancel ==
    /\ ~exec.done
    /\ \A t \in ExecTargets : exec.closure[t].pc # "panic"
    /\ ~ctxDone
    /\ ctxDone' = TRUE
    /\ UNCHANGED <<cmd, pc, err, nEvents, deleting, selected, logVars,
                   fwdVars, firstPhase, scenario, history, runVars,
                   otherVars>>

\* client.Array.Execute returns once the closure has returned for every
\* target.
ExecuteDone ==
    /\ ~exec.done
    /\ \A t \in ExecTargets : exec.closure[t].pc = "returned"
    /\ exec' = [exec EXCEPT !.done = TRUE]
    /\ UNCHANGED <<cmd, pc, err, ctxDone, nEvents, deleting, selected,
                   logVars, fwdVars, firstPhase, scenario, history, runVars,
                   scan, conns, terminated, ports, job, env, dryRun, found,
                   ranged, forwardStop>>

\* ------------------------------------- port-forward, one local port per pod
\* No run of the variant is modelled.
NoPorts == [localPort |-> 0, pc |-> <<>>, read |-> <<>>, given |-> <<>>]

\* tunnels the closures have started or are about to start
PortsBusy ==
    Len(ports.given) + Cardinality({t \in Targets : ports.pc[t] # "loop"})

\* localPort += 1 in the closure of target t, for a Running pod it does not
\* track: first the read of the variable of RunE ...
PortRead(t) ==
    /\ ports.pc # <<>>
    /\ ports.pc[t] = "loop"
    /\ PortsBusy < MaxTunnels
    /\ ports' = [ports EXCEPT !.pc[t] = "read", !.read[t] = ports.localPort]
    /\ UNCHANGED <<cmd, pc, err, ctxDone, nEvents, deleting, selected,
                   logVars, fwdVars, firstPhase, scenario, history, runVars,
                   scan, exec, conns, terminated, job, env, dryRun, found,
                   ranged, forwardStop>>

\* ... then the write of the value read, plus one.
PortWrite(t) ==
    /\ ports.pc # <<>>
    /\ ports.pc[t] = "read"
    /\ ports' = [ports EXCEPT !.pc[t] = "written",
                              !.localPort = ports.read[t] + 1]
    /\ UNCHANGED <<cmd, pc, err, ctxDone, nEvents, deleting, selected,
                   logVars, fwdVars, firstPhase, scenario, history, runVars,
                   scan, exec, conns, terminated, job, env, dryRun, found,
                   ranged, forwardStop>>

\* handleForwardPod(..., localPort, remotePort): localPort is written by the
\* closures of the other targets with no synchronisation, so the argument
\* is either the value the closure of target t has just stored or the one
\* the variable holds now; the tunnel gets that port.
PortPass(t) ==
    /\ ports.pc # <<>>
    /\ ports.pc[t] = "written"
    /\ \E port \in {ports.read[t] + 1, ports.localPort} :
          ports' = [ports EXCEPT !.pc[t] = "loop",
                                 !.given = Append(@, port)]
    /\ UNCHANGED <<cmd, pc, err, ctxDone, nEvents, deleting, selected,
                   logVars, fwdVars, firstPhase, scenario, history, runVars,
                   scan, exec, conns, terminated, job, env, dryRun, found,
                   ranged, forwardStop>>

\* ------------------------------------------------- restartCmd.RunE, jobs
\* No restart is modelled.
NoJob == <<>>

\* The closure of restartCmd for a job, on target t: Get, Delete, Create.
\* Each call of the API either succeeds or returns an error.
JobGet(t) ==
    /\ t \in DOMAIN job
    /\ job[t].pc = "Get"
    /\ job[t].exists
    /\ job' = [job EXCEPT ![t].pc = "Delete",
                          ![t].calls = Append(@, "Get")]
    /\ UNCHANGED <<cmd, pc, err, ctxDone, nEvents, deleting, selected,
                   logVars, fwdVars, firstPhase, scenario, history, runVars,
                   scan, exec, conns, terminated, ports, env, dryRun, found,
                   ranged, forwardStop>>

JobGetFail(t) ==
    /\ t \in DOMAIN job
    /\ job[t].pc = "Get"
    /\ job' = [job EXCEPT ![t].pc = "returned", ![t].err = "error",
                          ![t].calls = Append(@, "Get")]
    /\ UNCHANGED <<cmd, pc, err, ctxDone, nEvents, deleting, selected,
                   logVars, fwdVars, firstPhase, scenario, history, runVars,
                   scan, exec, conns, terminated, ports, env, dryRun, found,
                   ranged, forwardStop>>

JobDelete(t) ==
    /\ t \in DOMAIN job
    /\ job[t].pc = "Delete"
    /\ job' = [job EXCEPT ![t].pc = "Create", ![t].exists = FALSE,
                          ![t].calls = Append(@, "Delete")]
    /\ UNCHANGED <<cmd, pc, err, ctxDone, nEvents, deleting, selected,
                   logVars, fwdVars, firstPhase, scenario, history, runVars,
                   scan, exec, conns, terminated, ports, env, dryRun, found,
                   ranged, forwardStop>>

JobDeleteFail(t) ==
    /\ t \in DOMAIN job
    /\ job[t].pc = "Delete"
    /\ job' = [job EXCEPT ![t].pc = "returned", ![t].err = "error",
                          ![t].calls = Append(@, "Delete")]
    /\ UNCHANGED <<cmd, pc, err, ctxDone, nEvents, deleting, selected,
                   logVars, fwdVars, firstPhase, scenario, history, runVars,
                   scan, exec, conns, terminated, ports, env, dryRun, found,
                   ranged, forwardStop>>

JobCreate(t) ==
    /\ t \in DOMAIN job
    /\ job[t].pc = "Create"
    /\ job' = [job EXCEPT ![t].pc = "returned", ![t].err = "nil",
                          ![t].exists = TRUE,
                          ![t].calls = Append(@, "Create")]
    /\ UNCHANGED <<cmd, pc, err, ctxDone, nEvents, deleting, selected,
                   logVars, fwdVars, firstPhase, scenario, history, runVars,
                   scan, exec, conns, terminated, ports, env, dryRun, found,
                   ranged, forwardStop>>

JobCreateFail(t) ==
    /\ t \in DOMAIN job
    /\ job[t].pc = "Create"
    /\ job' = [job EXCEPT ![t].pc = "returned", ![t].err = "error",
                          ![t].calls = Append(@, "Create")]
    /\ UNCHANGED <<cmd, pc, err, ctxDone, nEvents, deleting, selected,
                   logVars, fwdVars, firstPhase, scenario, history, runVars,
                   scan, exec, conns, terminated, ports, env, dryRun, found,
                   ranged, forwardStop>>

\* ------------------------------------------------------- getEnv, inline
\* the value of a *bool: nil, or a pointer to true or false
Optionals == {"nil", "true", "false"}

\* field paths of an ObjectFieldSelector
FieldPaths == {"metadata.name", "metadata.labels['app']", "spec.unknown"}

\* resources of a ResourceFieldSelector
Resources == {"limits.cpu", "unknown"}

\* EnvVar.ValueFrom: nil, or an EnvVarSource with at most one member set
ValueFroms ==
    {[kind |-> "nil", arg |-> ""], [kind |-> "none", arg |-> ""]}
    \cup [kind : {"ConfigMapKeyRef", "SecretKeyRef"}, arg : Optionals]
    \cup [kind : {"FieldRef"}, arg : FieldPaths]
    \cup [kind : {"ResourceFieldRef"}, arg : Resources]

\* names of the variables of a container
EnvNames == {"A", "B"}

\* v1.EnvVar
EnvVars == [Name : EnvNames, Value : {"", "literal"}, ValueFrom : ValueFroms]

\* What a map of getEnvDependencies gives for the name a variable refers
\* to: no entry, a nil map (the fetch failed), a map without the key, a
\* map with the key.
Storages == {"absent", "nil", "noKey", "hasKey"}

\* getEnvDependencies makes an entry for every name a variable of the
\* container refers to, before it fetches.
Fetched == Storages \ {"absent"}

\* getValueFromRef: the message when the name has no entry and the reference
\* is not optional, otherwise values[key] (the empty string without the key
\* or on a nil map).
\* The backquotes of the messages are written as single quotes.
getValueFromRef(storage, kind, optional) ==
    IF storage = "absent" /\ optional = "false"
    THEN "<" \o kind \o " 'ref' not optional and not found>"
    ELSE IF storage = "hasKey" THEN "stored" ELSE ""

\* getEnvFieldRef on the paths of FieldPaths: the label or annotation key,
\* a field of the pod, or the message for a path that is not implemented.
getEnvFieldRef(path) ==
    CASE path = "metadata.labels['app']" -> "app"
      [] path = "metadata.name" -> "pod-name"
      [] path = "spec.unknown" -> "<'spec.unknown' field ref not implemented>"

\* getEnvResourceRef: the quantity of the container, "" for another resource.
getEnvResourceRef(resource) ==
    IF resource = "limits.cpu" THEN "100m" ELSE ""

\* getValueFrom: envVar.ValueFrom is dereferenced without a nil check.
getValueFrom(envVar, configMaps, secrets) ==
    LET from == envVar.ValueFrom IN
    CASE from.kind = "nil" -> "panic"
      [] from.kind = "ConfigMapKeyRef" ->
            getValueFromRef(configMaps, "configmap", from.arg)
      [] from.kind = "SecretKeyRef" ->
            getValueFromRef(secrets, "secret", from.arg)
      [] from.kind = "FieldRef" -> getEnvFieldRef(from.arg)
      [] from.kind = "ResourceFieldRef" -> getEnvResourceRef(from.arg)
      [] OTHER -> ""

\* getInlineEnv: the literal value when not empty, otherwise getValueFrom.
getInlineEnv(envVar, configMaps, secrets) ==
    IF envVar.Value # "" THEN envVar.Value
    ELSE getValueFrom(envVar, configMaps, secrets)

\* No call of getEnv is modelled.
NoEnv == [pc |-> "none", vars |-> <<>>, configMaps |-> "absent",
          secrets |-> "absent", next |-> 1, inline |-> <<>>]

\* One turn of the loop of getEnv over container.Env: inline[env.Name] is
\* set, over what an earlier variable of that name left. The nil pointer
\* dereference of getValueFrom ends the program.
EnvNext ==
    /\ env.pc = "loop"
    /\ env.next <= Len(env.vars)
    /\ LET var == env.vars[env.next]
           v == getInlineEnv(var, env.configMaps, env.secrets)
       IN  env' = IF v = "panic"
                  THEN [env EXCEPT !.pc = "panic"]
                  ELSE [env EXCEPT
                           !.next = @ + 1,
                           !.inline = [n \in DOMAIN env.inline \cup {var.Name}
                                          |-> IF n = var.Name THEN v
                                              ELSE env.inline[n]]]
    /\ UNCHANGED <<cmd, pc, err, ctxDone, nEvents, deleting, selected,
                   logVars, fwdVars, firstPhase, scenario, history, runVars,
                   scan, exec, conns, terminated, ports, job, dryRun, found,
                   ranged, forwardStop>>

\* The loop is over: output["inline"] = inline, return output.
EnvReturn ==
    /\ env.pc = "loop"
    /\ env.next > Len(env.vars)
    /\ env' = [env EXCEPT !.pc = "returned"]
    /\ UNCHANGED <<cmd, pc, err, ctxDone, nEvents, deleting, selected,
                   logVars, fwdVars, firstPhase, scenario, history, runVars,
                   scan, exec, conns, terminated, ports, job, dryRun, found,
                   ranged, forwardStop>>

\* ------------------------------------------------------------------- Init
InitState ==
    /\ pc = "watch"
    /\ err = "none"
    /\ ctxDone = FALSE
    /\ nEvents = 0
    /\ deleting = NoUID
    /\ selected \in (IF cmd = "log" THEN SUBSET Containers ELSE {Containers})
    /\ activeStreams = [u \in UIDs |-> None]
    /\ streaming = <<>>
    /\ cancelled = {}
    /\ activeForwarding = [u \in UIDs |-> None]
    /\ forwarding = <<>>
    /\ closed = {}
    /\ pool = {}
    /\ firstPhase = [u \in UIDs |-> ""]
    /\ scenario = [u \in UIDs |-> 0]
    /\ terminated = {}
    /\ runE = "execute"
    /\ runErr = "none"
    /\ poolStopped = FALSE

Init ==
    /\ cmd \in {"log", "forward"}
    /\ history = FALSE
    /\ InitState
    /\ scan = NoScan
    /\ exec = NoExec
    /\ conns = <<>>
    /\ ports = NoPorts
    /\ job = NoJob
    /\ env = NoEnv
    /\ dryRun = FALSE
    /\ found = {}
    /\ ranged = {}
    /\ forwardStop = None

\* Logger.Log alone, recording the history of each pod's events.
InitLog ==
    /\ cmd = "log"
    /\ history = TRUE
    /\ InitState
    /\ scan = NoScan
    /\ exec = NoExec
    /\ conns = <<>>
    /\ ports = NoPorts
    /\ job = NoJob
    /\ env = NoEnv
    /\ dryRun = FALSE
    /\ found = {}
    /\ ranged = {}
    /\ forwardStop = None

\* Logger.Log alone, with or without dryRun.
InitDryRun ==
    /\ cmd = "log"
    /\ history = FALSE
    /\ InitState
    /\ scan = NoScan
    /\ exec = NoExec
    /\ conns = <<>>
    /\ ports = NoPorts
    /\ job = NoJob
    /\ env = NoEnv
    /\ dryRun \in BOOLEAN
    /\ found = {}
    /\ ranged = {}
    /\ forwardStop = None

\* The port-forward command alone.
InitForward ==
    /\ cmd = "forward"
    /\ history = FALSE
    /\ InitState
    /\ scan = NoScan
    /\ exec = NoExec
    /\ conns = <<>>
    /\ ports = NoPorts
    /\ job = NoJob
    /\ env = NoEnv
    /\ dryRun = FALSE
    /\ found = {}
    /\ ranged = {}
    /\ forwardStop = None

\* One call of outputLog, for any filters and any log of up to MaxLines
\* lines.
InitOutput ==
    /\ cmd = "log"
    /\ history = FALSE
    /\ InitState
    /\ \E l \in Loggers, n \in 0..MaxLines :
          \E reader \in [1..n -> Lines] :
              scan = [logger |-> l, reader |-> reader, done |-> <<>>]
    /\ exec = NoExec
    /\ conns = <<>>
    /\ ports = NoPorts
    /\ job = NoJob
    /\ env = NoEnv
    /\ dryRun = FALSE
    /\ found = {}
    /\ ranged = {}
    /\ forwardStop = None

\* One call of clients.Execute by the port-forward command: the closure is
\* started once for each target.
InitExecute ==
    /\ cmd = "forward"
    /\ history = FALSE
    /\ InitState
    /\ scan = NoScan
    /\ exec = [done |-> FALSE, closure |-> [t \in ExecTargets |-> ClosureStart]]
    /\ conns = <<>>
    /\ ports = NoPorts
    /\ job = NoJob
    /\ env = NoEnv
    /\ dryRun = FALSE
    /\ found = {}
    /\ ranged = {}
    /\ forwardStop = None

\* The variant with one local port per pod: the closures of all targets
\* are in their loops, localPort is the parsed <local_port>.
InitPorts ==
    /\ cmd = "forward"
    /\ history = FALSE
    /\ InitState
    /\ scan = NoScan
    /\ exec = NoExec
    /\ conns = <<>>
    /\ ports = [localPort |-> 0, pc |-> [t \in Targets |-> "loop"],
                read |-> [t \in Targets |-> 0], given |-> <<>>]
    /\ job = NoJob
    /\ env = NoEnv
    /\ dryRun = FALSE
    /\ found = {}
    /\ ranged = {}
    /\ forwardStop = None

\* restart of a job on every target; on each the job exists or not.
InitRestart ==
    /\ cmd = "forward"
    /\ history = FALSE
    /\ InitState
    /\ scan = NoScan
    /\ exec = NoExec
    /\ conns = <<>>
    /\ ports = NoPorts
    /\ env = NoEnv
    /\ dryRun = FALSE
    /\ found = {}
    /\ ranged = {}
    /\ forwardStop = None
    /\ \E existed \in [Targets -> BOOLEAN] :
          job = [t \in Targets |->
                    [pc |-> "Get", err |-> "none", existed |-> existed[t],
                     exists |-> existed[t], calls |-> <<>>]]

\* getEnv on a container with up to MaxEnv variables.
InitEnv ==
    /\ cmd = "forward"
    /\ history = FALSE
    /\ InitState
    /\ scan = NoScan
    /\ exec = NoExec
    /\ conns = <<>>
    /\ ports = NoPorts
    /\ job = NoJob
    /\ \E n \in 0..MaxEnv : \E vs \in [1..n -> EnvVars] :
       \E cm \in Fetched, sec \in Fetched :
          env = [pc |-> "loop", vars |-> vs, configMaps |-> cm,
                 secrets |-> sec, next |-> 1, inline |-> <<>>]
    /\ dryRun = FALSE
    /\ found = {}
    /\ ranged = {}
    /\ forwardStop = None

\* ---------------------------------------------------- shared environment
\* resource.WatchPods succeeds: the call enters its event loop.
WatchPods ==
    /\ pc = "watch"
    /\ pc' = "loop"
    /\ UNCHANGED <<cmd, err, ctxDone, nEvents, deleting, selected, logVars,
                   fwdVars, firstPhase, scenario, history, runVars, otherVars>>

\* The call as it would be if it dropped the error of resource.WatchPods.
WatchPodsFailNil ==
    /\ pc = "watch"
    /\ pc' = "returned"
    /\ err' = "nil"
    /\ UNCHANGED <<cmd, ctxDone, nEvents, deleting, selected, logVars, fwdVars,
                   firstPhase, scenario, history, runVars, otherVars>>

\* resource.WatchPods fails: the call returns the error.
WatchPodsFail ==
    /\ pc = "watch"
    /\ pc' = "returned"
    /\ err' = "error"
    /\ UNCHANGED <<cmd, ctxDone, nEvents, deleting, selected, logVars, fwdVars,
                   firstPhase, scenario, history, runVars, otherVars>>

\* The context is cancelled (SIGINT/SIGTERM handler, or the caller).
CtxCancel ==
    /\ \/ pc \in {"watch", "loop", "delete", "close", "range", "rangeClose",
                "wait"}
       \/ cmd = "forward" /\ pc = "returned" /\ runE # "returned"
    /\ ~ctxDone
    /\ ctxDone' = TRUE
    /\ UNCHANGED <<cmd, pc, err, nEvents, deleting, selected, logVars, fwdVars,
                   firstPhase, scenario, history, runVars, otherVars>>

\* An event whose object is not a pod is skipped by both loops.
SkipNonPod ==
    /\ Receive
    /\ UNCHANGED <<cmd, pc, err, ctxDone, deleting, selected, logVars,
                   fwdVars, firstPhase, scenario, history, runVars, otherVars>>

\* ------------------------------------------------------------- Logger.Log
\* What the loop body of Logger.Log does with an event, given the result
\* of activeStreams.Load.
LogDecision(type, phase, ok) ==
    IF \/ type = Deleted \/ type = Error
       \/ phase = PodSucceeded \/ phase = PodFailed
    THEN IF ok THEN "cancel"
         ELSE IF phase = PodSucceeded \/ phase = PodFailed THEN "handlePod"
         ELSE "continue"
    ELSE IF ok \/ phase = PodPending THEN "continue"
    ELSE "handlePod"

\* handlePod as it would be without the dryRun branch.
handlePodNoDryRun(uid, phase) ==
    LET chosen == SelectSeq(ContainerSeq, IsContainerSelected)
    IN  [i \in 1..Len(chosen) |->
            [uid |-> uid, container |-> chosen[i],
             running |-> (phase = PodRunning), pc |-> "go", end |-> "-"]]

\* Goroutines handlePod starts for a pod: one per selected container, each
\* holding its copy of the pod, of which it reads whether the phase is
\* Running. With dryRun it starts none.
handlePod(uid, phase) ==
    LET chosen == SelectSeq(ContainerSeq, IsContainerSelected)
    IN  IF dryRun THEN <<>>
        ELSE [i \in 1..Len(chosen) |->
                 [uid |-> uid, container |-> chosen[i],
                  running |-> (phase = PodRunning), pc |-> "go",
                  end |-> "-"]]

\* The pod/container pairs handlePod reports with kube.Info: with dryRun,
\* every selected container of the pod.
handlePodFound(uid) ==
    IF dryRun
    THEN {[uid |-> uid, container |-> c] :
              c \in {c \in Containers : IsContainerSelected(c)}}
    ELSE {}

LogEvent(e) ==
    /\ cmd = "log"
    /\ Receive
    /\ firstPhase' = FirstPhaseAfter(e)
    /\ scenario' = ScenarioAfter(e)
    /\ LET streamCancel == activeStreams[e.uid]
           ok == streamCancel # None
           decision == LogDecision(e.type, e.phase, ok)
       IN  /\ decision = "handlePod" =>
                  Len(streaming) + Cardinality(selected) <= MaxStreams
           /\ cancelled' = IF decision = "cancel"
                           THEN cancelled \cup {streamCancel}
                           ELSE cancelled
           /\ pc' = IF decision = "cancel" THEN "delete" ELSE pc
           /\ deleting' = IF decision = "cancel" THEN e.uid ELSE NoUID
           /\ terminated' =
                  IF /\ history
                     /\ decision = "cancel"
                     /\ e.phase \in {PodSucceeded, PodFailed}
                  THEN terminated \cup {e.uid}
                  ELSE terminated
           /\ streaming' = IF decision = "handlePod"
                           THEN streaming \o handlePod(e.uid, e.phase)
                           ELSE streaming
           /\ found' = IF decision = "handlePod"
                       THEN found \cup handlePodFound(e.uid)
                       ELSE found
    /\ UNCHANGED <<cmd, err, ctxDone, selected, activeStreams, fwdVars,
                   history, runVars, scan, exec, conns, ports, job, env,
                   dryRun, ranged, forwardStop>>

\* After streamCancel(): activeStreams.Delete(pod.UID), whatever is stored
\* under the UID by now; then the loop goes on.
LogDelete ==
    /\ cmd = "log"
    /\ pc = "delete"
    /\ activeStreams' = [activeStreams EXCEPT ![deleting] = None]
    /\ pc' = "loop"
    /\ deleting' = NoUID
    /\ UNCHANGED <<cmd, err, ctxDone, nEvents, selected, streaming, cancelled,
                   fwdVars, firstPhase, scenario, history, runVars, otherVars>>

\* The watch channel is closed: Logger.Log leaves the loop and waits.
LogStreamEnd ==
    /\ cmd = "log"
    /\ pc = "loop"
    /\ pc' = "wait"
    /\ UNCHANGED <<cmd, err, ctxDone, nEvents, deleting, selected, logVars,
                   fwdVars, firstPhase, scenario, history, runVars, otherVars>>

\* Logger.Log as it would be without streaming.Wait().
LogReturnNoWait ==
    /\ cmd = "log"
    /\ pc = "wait"
    /\ pc' = "returned"
    /\ err' = "nil"
    /\ UNCHANGED <<cmd, ctxDone, nEvents, deleting, selected, logVars, fwdVars,
                   firstPhase, scenario, history, runVars, otherVars>>

\* streaming.Wait() returns, Logger.Log returns nil.
LogReturn ==
    /\ cmd = "log"
    /\ pc = "wait"
    /\ SimpleDone(streaming)
    /\ pc' = "returned"
    /\ err' = "nil"
    /\ UNCHANGED <<cmd, ctxDone, nEvents, deleting, selected, logVars, fwdVars,
                   firstPhase, scenario, history, runVars, otherVars>>

\* The context of a follow session is done.
StreamCtxDone(s) == ctxDone \/ s \in cancelled

\* The goroutine of handlePod runs for a pod that is not Running: one
\* bounded read with logPod, then it returns.
LogPodRun(s) ==
    /\ pc \in {"loop", "delete", "wait"}
    /\ s \in 1..Len(streaming)
    /\ streaming[s].pc = "go"
    /\ ~streaming[s].running
    /\ streaming' = [streaming EXCEPT ![s].pc = "done", ![s].end = "logPod"]
    /\ UNCHANGED <<cmd, pc, err, ctxDone, nEvents, deleting, selected,
                   activeStreams, cancelled, fwdVars, firstPhase, scenario,
                   history, runVars, otherVars>>

\* The goroutine of handlePod runs for a Running pod: it stores its
\* CancelFunc under the pod UID and starts following the log.
StreamGo(s) ==
    /\ pc \in {"loop", "delete", "wait"}
    /\ s \in 1..Len(streaming)
    /\ streaming[s].pc = "go"
    /\ streaming[s].running
    /\ streaming' = [streaming EXCEPT ![s].pc = "streamPod"]
    /\ activeStreams' = [activeStreams EXCEPT ![streaming[s].uid] = s]
    /\ UNCHANGED <<cmd, pc, err, ctxDone, nEvents, deleting, selected,
                   cancelled, fwdVars, firstPhase, scenario, history,
                   runVars, otherVars>>

\* streamPod returns (open failed, stream failed or ended, or its context
\* is done); the deferred streamCancel runs.
StreamPodEnd(s) ==
    /\ pc \in {"loop", "delete", "wait"}
    /\ s \in 1..Len(streaming)
    /\ streaming[s].pc = "streamPod"
    /\ streaming' = [streaming EXCEPT
           ![s].pc = "done",
           ![s].end = IF StreamCtxDone(s) THEN "cancel" ELSE "own"]
    /\ cancelled' = cancelled \cup {s}
    /\ UNCHANGED <<cmd, pc, err, ctxDone, nEvents, deleting, selected,
                   activeStreams, fwdVars, firstPhase, scenario,
                   history, runVars, otherVars>>

\* ----------------------------------------------------------- port-forward
\* The loop body as it would be if it did not look at the result of
\* activeForwarding.Load before starting a tunnel.
ForwardDecisionNoLoad(type, phase, ok) ==
    IF type = Deleted \/ phase = PodSucceeded \/ phase = PodFailed
    THEN IF ok THEN "close" ELSE "continue"
    ELSE IF phase # PodRunning THEN "continue"
    ELSE "handleForwardPod"

\* What the loop body of the port-forward closure does with an event, given
\* the result of activeForwarding.Load.
ForwardDecision(type, phase, ok) ==
    IF type = Deleted \/ phase = PodSucceeded \/ phase = PodFailed
    THEN IF ok THEN "close" ELSE "continue"
    ELSE IF ok \/ phase # PodRunning THEN "continue"
    ELSE "handleForwardPod"

ForwardEvent(e) ==
    /\ cmd = "forward"
    /\ Receive
    /\ LET loaded == activeForwarding[e.uid]
           ok == loaded # None
           decision == ForwardDecision(e.type, e.phase, ok)
       IN  \/ /\ decision = "continue"
              /\ UNCHANGED <<pc, fwdVars, forwardStop>>
           \/ /\ decision = "close"
              /\ pc' = "close"
              /\ forwardStop' = loaded
              /\ UNCHANGED fwdVars
           \/ /\ decision = "handleForwardPod"
              /\ forwarding' = Append(forwarding,
                     [uid |-> e.uid, pc |-> "go", port |-> None])
              /\ activeForwarding' =
                     [activeForwarding EXCEPT ![e.uid] = Len(forwarding) + 1]
              /\ UNCHANGED <<pc, closed, pool, forwardStop>>
    /\ UNCHANGED <<cmd, err, ctxDone, deleting, selected, logVars,
                   firstPhase, scenario, history, runVars, scan, exec, conns,
                   terminated, ports, job, env, dryRun, found, ranged>>

\* close(forwardStop) on the channel the loop has loaded, whatever the
\* tunnel has done since; then the loop goes on.
ForwardClose ==
    /\ cmd = "forward"
    /\ pc = "close"
    /\ IF forwardStop \in closed
       THEN /\ pc' = "panic"                  \* close of a closed channel
            /\ UNCHANGED closed
       ELSE /\ pc' = "loop"
            /\ closed' = closed \cup {forwardStop}
    /\ forwardStop' = None
    /\ UNCHANGED <<cmd, err, ctxDone, nEvents, deleting, selected, logVars,
                   activeForwarding, forwarding, pool, firstPhase, scenario,
                   history, runVars, scan, exec, conns, terminated, ports,
                   job, env, dryRun, found, ranged>>

\* The watch channel is closed: the closure leaves the loop and starts
\* activeForwarding.Range.
ForwardStreamEnd ==
    /\ cmd = "forward"
    /\ pc = "loop"
    /\ pc' = "range"
    /\ ranged' = {}
    /\ UNCHANGED <<cmd, err, ctxDone, nEvents, deleting, selected, logVars,
                   fwdVars, firstPhase, scenario, history, runVars, scan,
                   exec, conns, terminated, ports, job, env, dryRun, found,
                   forwardStop>>

\* Range visits the entry of u, one it has not visited and that is in the
\* map when it is visited, in whatever order the map yields, and loads its
\* value. Tunnels run between two visits.
RangeLoad(u) ==
    /\ cmd = "forward"
    /\ pc = "range"
    /\ u \notin ranged
    /\ activeForwarding[u] # None
    /\ ranged' = ranged \cup {u}
    /\ forwardStop' = activeForwarding[u]
    /\ pc' = "rangeClose"
    /\ UNCHANGED <<cmd, err, ctxDone, nEvents, deleting, selected, logVars,
                   fwdVars, firstPhase, scenario, history, runVars, scan,
                   exec, conns, terminated, ports, job, env, dryRun, found>>

\* The callback of Range closes the channel it was given, whatever the
\* tunnel has done since.
RangeClose ==
    /\ cmd = "forward"
    /\ pc = "rangeClose"
    /\ IF forwardStop \in closed
       THEN /\ pc' = "panic"                  \* close of a closed channel
            /\ UNCHANGED closed
       ELSE /\ pc' = "range"
            /\ closed' = closed \cup {forwardStop}
    /\ forwardStop' = None
    /\ UNCHANGED <<cmd, err, ctxDone, nEvents, deleting, selected, logVars,
                   activeForwarding, forwarding, pool, firstPhase, scenario,
                   history, runVars, scan, exec, conns, terminated, ports,
                   job, env, dryRun, found, ranged>>

\* Range has visited every entry of the map: forwarding.Wait() is next.
RangeEnd ==
    /\ cmd = "forward"
    /\ pc = "range"
    /\ \A u \in UIDs : activeForwarding[u] # None => u \in ranged
    /\ pc' = "wait"
    /\ UNCHANGED <<cmd, err, ctxDone, nEvents, deleting, selected, logVars,
                   fwdVars, firstPhase, scenario, history, runVars, otherVars>>

\* forwarding.Wait() returns, the closure returns nil.
ForwardReturn ==
    /\ cmd = "forward"
    /\ pc = "wait"
    /\ SimpleDone(forwarding)
    /\ pc' = "returned"
    /\ err' = "nil"
    /\ UNCHANGED <<cmd, ctxDone, nEvents, deleting, selected, logVars, fwdVars,
                   firstPhase, scenario, history, runVars, otherVars>>

\* The goroutine of handleForwardPod gets a free port and adds its backend.
TunnelGo(s, port) ==
    /\ pc \in {"loop", "delete", "close", "range", "rangeClose", "wait"}
    /\ s \in 1..Len(forwarding)
    /\ forwarding[s].pc = "go"
    /\ forwarding' = [forwarding EXCEPT ![s].pc = "listen", ![s].port = port]
    /\ pool' = PoolAdd(pool, port)
    /\ UNCHANGED <<cmd, pc, err, ctxDone, nEvents, deleting, selected, logVars,
                   activeForwarding, closed, firstPhase, scenario,
                   history, runVars, otherVars>>

\* The goroutine as it would be if a GetFreePort failure ended the whole
\* reconcile call with the error.
TunnelNoPortFatal(s) ==
    /\ pc \in {"loop", "delete", "close", "range", "rangeClose", "wait"}
    /\ s \in 1..Len(forwarding)
    /\ forwarding[s].pc = "go"
    /\ forwarding' = [forwarding EXCEPT ![s].pc = "done"]
    /\ activeForwarding' = [activeForwarding EXCEPT ![forwarding[s].uid] = None]
    /\ pc' = "returned"
    /\ err' = "error"
    /\ UNCHANGED <<cmd, ctxDone, nEvents, deleting, selected, logVars,
                   closed, pool, firstPhase, scenario, history,
                   runVars, otherVars>>

\* GetFreePort fails: the goroutine returns, the deferred Delete runs.
TunnelNoPort(s) ==
    /\ pc \in {"loop", "delete", "close", "range", "rangeClose", "wait"}
    /\ s \in 1..Len(forwarding)
    /\ forwarding[s].pc = "go"
    /\ forwarding' = [forwarding EXCEPT ![s].pc = "done"]
    /\ activeForwarding' = [activeForwarding EXCEPT ![forwarding[s].uid] = None]
    /\ UNCHANGED <<cmd, pc, err, ctxDone, nEvents, deleting, selected, logVars,
                   closed, pool, firstPhase, scenario, history,
                   runVars, otherVars>>

\* The goroutine as it would be if activeForwarding.Delete were deferred
\* last, and so ran before pool.Remove.
TunnelEndDeleteFirst(s) ==
    /\ pc \in {"loop", "delete", "close", "range", "rangeClose", "wait"}
    /\ s \in 1..Len(forwarding)
    /\ forwarding[s].pc = "listen"
    /\ forwarding' = [forwarding EXCEPT ![s].pc = "deferred"]
    /\ activeForwarding' = [activeForwarding EXCEPT ![forwarding[s].uid] = None]
    /\ UNCHANGED <<cmd, pc, err, ctxDone, nEvents, deleting, selected, logVars,
                   closed, pool, firstPhase, scenario, history, runVars,
                   otherVars>>

\* The goroutine as it would be without the deferred pool.Remove.
TunnelEndNoRemove(s) ==
    /\ pc \in {"loop", "delete", "close", "range", "rangeClose", "wait"}
    /\ s \in 1..Len(forwarding)
    /\ forwarding[s].pc = "listen"
    /\ forwarding' = [forwarding EXCEPT ![s].pc = "deferred"]
    /\ UNCHANGED <<cmd, pc, err, ctxDone, nEvents, deleting, selected, logVars,
                   activeForwarding, closed, pool, firstPhase, scenario,
                   history, runVars, otherVars>>

\* listenPortForward returns (error, or stop channel closed); the deferred
\* pool.Remove runs.
TunnelEnd(s) ==
    /\ pc \in {"loop", "delete", "close", "range", "rangeClose", "wait"}
    /\ s \in 1..Len(forwarding)
    /\ forwarding[s].pc = "listen"
    /\ forwarding' = [forwarding EXCEPT ![s].pc = "deferred"]
    /\ pool' = PoolRemove(pool, forwarding[s].port)
    /\ UNCHANGED <<cmd, pc, err, ctxDone, nEvents, deleting, selected, logVars,
                   activeForwarding, closed, firstPhase, scenario,
                   history, runVars, otherVars>>

\* listenPortForward cannot establish the tunnel (transport or dial error):
\* handleForwardPod reports the error, the deferred pool.Remove runs.
TunnelEstablishFail(s) ==
    /\ pc \in {"loop", "delete", "close", "range", "rangeClose", "wait"}
    /\ s \in 1..Len(forwarding)
    /\ forwarding[s].pc = "listen"
    /\ forwarding' = [forwarding EXCEPT ![s].pc = "deferred"]
    /\ pool' = PoolRemove(pool, forwarding[s].port)
    /\ UNCHANGED <<cmd, pc, err, ctxDone, nEvents, deleting, selected, logVars,
                   activeForwarding, closed, firstPhase, scenario,
                   history, runVars, otherVars>>

\* The deferred activeForwarding.Delete runs and the goroutine finishes.
TunnelDelete(s) ==
    /\ pc \in {"loop", "delete", "close", "range", "rangeClose", "wait"}
    /\ s \in 1..Len(forwarding)
    /\ forwarding[s].pc = "deferred"
    /\ forwarding' = [forwarding EXCEPT ![s].pc = "done"]
    /\ activeForwarding' = [activeForwarding EXCEPT ![forwarding[s].uid] = None]
    /\ UNCHANGED <<cmd, pc, err, ctxDone, nEvents, deleting, selected, logVars,
                   closed, pool, firstPhase, scenario, history,
                   runVars, otherVars>>

\* ------------------------------------------------- portForwardCmd.RunE
\* RunE from clients.Execute on, the two ports being parsed, with one
\* target.  clients.Execute returns once the closure has returned for the
\* target; RunE does not look at what the closure returned.
ExecuteReturn ==
    /\ cmd = "forward"
    /\ runE = "execute"
    /\ pc = "returned"
    /\ runE' = "poolDone"
    /\ UNCHANGED <<cmd, pc, err, ctxDone, nEvents, deleting, selected, logVars,
                   fwdVars, firstPhase, scenario, history, runErr,
                   poolStopped, otherVars>>

\* the relay of a connection that has ended, or that was closed at once
ConnEnded == [backend |-> None, open |-> FALSE, removed |-> {}]

\* tcpool.Pool: Start(ctx) stops accepting once ctx is cancelled, the relays
\* still open are closed, and Done() is closed.
PoolStop ==
    /\ cmd = "forward"
    /\ ctxDone
    /\ ~poolStopped
    /\ poolStopped' = TRUE
    /\ conns' = [c \in 1..Len(conns) |-> ConnEnded]
    /\ UNCHANGED <<cmd, pc, err, ctxDone, nEvents, deleting, selected,
                   logVars, fwdVars, firstPhase, scenario, history, runE,
                   runErr, scan, exec, terminated, ports, job, env, dryRun,
                   found, ranged, forwardStop>>

\* <-pool.Done() returns and RunE returns nil; the deferred cancel() runs.
RunEReturn ==
    /\ cmd = "forward"
    /\ runE = "poolDone"
    /\ poolStopped
    /\ runE' = "returned"
    /\ runErr' = "nil"
    /\ ctxDone' = TRUE
    /\ UNCHANGED <<cmd, pc, err, nEvents, deleting, selected, logVars,
                   fwdVars, firstPhase, scenario, history,
                   poolStopped, otherVars>>

\* ----------------------------------------------------------- tcpool.Pool
\* backends a session has removed with its deferred pool.Remove
RemovedBackends ==
    {forwarding[s].port :
        s \in {t \in 1..Len(forwarding) :
                  /\ forwarding[t].pc \in {"deferred", "done"}
                  /\ forwarding[t].port # None}}

\* The relay a new connection gets: the place of one that has ended, or a
\* new one. The pool relays up to MaxConns connections at a time.
ConnSlot ==
    IF \E c \in 1..Len(conns) : ~conns[c].open
    THEN CHOOSE c \in 1..Len(conns) :
             ~conns[c].open /\ \A d \in 1..(c - 1) : conns[d].open
    ELSE Len(conns) + 1

\* The pool as it would be if it chose among all the backends ever added.
PoolAcceptStale(backend) ==
    /\ cmd = "forward"
    /\ pc # "panic"
    /\ ~poolStopped
    /\ ConnSlot <= MaxConns
    /\ IF pool \cup RemovedBackends = {} THEN backend = None
       ELSE backend \in pool \cup RemovedBackends
    /\ LET relay == IF backend = None THEN ConnEnded
                    ELSE [backend |-> backend, open |-> TRUE,
                          removed |-> RemovedBackends]
       IN  conns' = IF ConnSlot = Len(conns) + 1 THEN Append(conns, relay)
                    ELSE [conns EXCEPT ![ConnSlot] = relay]
    /\ UNCHANGED <<cmd, pc, err, ctxDone, nEvents, deleting, selected,
                   logVars, fwdVars, firstPhase, scenario, history, runVars,
                   scan, exec, terminated, ports, job, env, dryRun, found,
                   ranged, forwardStop>>

\* The pool accepts a connection and binds it to a backend of its current
\* set; with no backend the connection is closed at once. An open relay
\* does not keep the pool from accepting.
PoolAccept(backend) ==
    /\ cmd = "forward"
    /\ pc # "panic"
    /\ ~poolStopped
    /\ ConnSlot <= MaxConns
    /\ IF pool = {} THEN backend = None ELSE backend \in pool
    /\ LET relay == IF backend = None THEN ConnEnded
                    ELSE [backend |-> backend, open |-> TRUE,
                          removed |-> RemovedBackends]
       IN  conns' = IF ConnSlot = Len(conns) + 1 THEN Append(conns, relay)
                    ELSE [conns EXCEPT ![ConnSlot] = relay]
    /\ UNCHANGED <<cmd, pc, err, ctxDone, nEvents, deleting, selected,
                   logVars, fwdVars, firstPhase, scenario, history, runVars,
                   scan, exec, terminated, ports, job, env, dryRun, found,
                   ranged, forwardStop>>

\* A relayed connection ends.
ConnEnd(c) ==
    /\ c \in 1..Len(conns)
    /\ conns[c].open
    /\ conns' = [conns EXCEPT ![c] = ConnEnded]
    /\ UNCHANGED <<cmd, pc, err, ctxDone, nEvents, deleting, selected,
                   logVars, fwdVars, firstPhase, scenario, history, runVars,
                   scan, exec, terminated, ports, job, env, dryRun, found,
                   ranged, forwardStop>>

\* ------------------------------------------------------------------- Next
Next ==
    \/ WatchPods
    \/ WatchPodsFail
    \/ CtxCancel
    \/ \E e \in PodEvents : LogEvent(e)
    \/ LogDelete
    \/ LogStreamEnd
    \/ LogReturn
    \/ \E s \in 1..MaxStreams : LogPodRun(s)
    \/ \E s \in 1..MaxStreams : StreamGo(s)
    \/ \E s \in 1..MaxStreams : StreamPodEnd(s)
    \/ \E e \in PodEvents : ForwardEvent(e)
    \/ SkipNonPod
    \/ ForwardStreamEnd
    \/ ForwardClose
    \/ \E u \in UIDs : RangeLoad(u)
    \/ RangeClose
    \/ RangeEnd
    \/ ForwardReturn
    \/ \E s \in 1..MaxEvents, port \in Ports : TunnelGo(s, port)
    \/ \E s \in 1..MaxEvents : TunnelNoPort(s)
    \/ \E s \in 1..MaxEvents : TunnelEnd(s)
    \/ \E s \in 1..MaxEvents : TunnelEstablishFail(s)
    \/ \E s \in 1..MaxEvents : TunnelDelete(s)
    \/ ExecuteReturn
    \/ PoolStop
    \/ RunEReturn

Spec == Init /\ [][Next]_vars

NextLog ==
    \/ WatchPods
    \/ WatchPodsFail
    \/ CtxCancel
    \/ \E e \in PodEvents : LogEvent(e)
    \/ LogDelete
    \/ SkipNonPod
    \/ LogStreamEnd
    \/ LogReturn
    \/ \E s \in 1..MaxStreams : LogPodRun(s)
    \/ \E s \in 1..MaxStreams : StreamGo(s)
    \/ \E s \in 1..MaxStreams : StreamPodEnd(s)

SpecLog == InitLog /\ [][NextLog]_vars

SpecDryRun == InitDryRun /\ [][NextLog]_vars

NextForward ==
    \/ WatchPods
    \/ WatchPodsFail
    \/ CtxCancel
    \/ \E e \in PodEvents : ForwardEvent(e)
    \/ SkipNonPod
    \/ ForwardStreamEnd
    \/ ForwardClose
    \/ \E u \in UIDs : RangeLoad(u)
    \/ RangeClose
    \/ RangeEnd
    \/ ForwardReturn
    \/ \E s \in 1..MaxEvents, port \in Ports : TunnelGo(s, port)
    \/ \E s \in 1..MaxEvents : TunnelNoPort(s)
    \/ \E s \in 1..MaxEvents : TunnelEnd(s)
    \/ \E s \in 1..MaxEvents : TunnelEstablishFail(s)
    \/ \E s \in 1..MaxEvents : TunnelDelete(s)
    \/ ExecuteReturn
    \/ PoolStop
    \/ RunEReturn

SpecForward == InitForward /\ [][NextForward]_vars

\* The port-forward command under the scheduling the runtime gives: every
\* goroutine that can take a step eventually takes it, resource.WatchPods
\* returns, the watch channel is closed once ctx is cancelled and a tunnel
\* stops once its stop channel is closed.
FairForward ==
    /\ WF_vars(WatchPods \/ WatchPodsFail)
    /\ WF_vars(ctxDone /\ ForwardStreamEnd)
    /\ WF_vars(ForwardClose)
    /\ WF_vars(RangeEnd \/ RangeClose \/ \E u \in UIDs : RangeLoad(u))
    /\ WF_vars(ForwardReturn)
    /\ WF_vars(\E s \in 1..MaxEvents :
                  TunnelNoPort(s) \/ \E port \in Ports : TunnelGo(s, port))
    /\ WF_vars(\E s \in 1..MaxEvents : s \in closed /\ TunnelEnd(s))
    /\ WF_vars(\E s \in 1..MaxEvents : TunnelDelete(s))
    /\ WF_vars(ExecuteReturn)
    /\ WF_vars(PoolStop)
    /\ WF_vars(RunEReturn)

SpecForwardLive == InitForward /\ [][NextForward]_vars /\ FairForward

NextOutput == ScanLine

SpecOutput == InitOutput /\ [][NextOutput]_vars

NextExecute ==
    \/ \E t \in ExecTargets : TargetWatch(t)
    \/ \E t \in ExecTargets : TargetWatchFail(t)
    \/ \E t \in ExecTargets, u \in UIDs : TargetStart(t, u)
    \/ \E t \in ExecTargets, u \in UIDs : TargetLoad(t, u)
    \/ \E t \in ExecTargets : TargetClose(t)
    \/ \E t \in ExecTargets, u \in UIDs : TargetSessionEnd(t, u)
    \/ \E t \in ExecTargets : TargetStreamEnd(t)
    \/ \E t \in ExecTargets, u \in UIDs : TargetRangeLoad(t, u)
    \/ \E t \in ExecTargets : TargetRangeClose(t)
    \/ \E t \in ExecTargets : TargetRangeEnd(t)
    \/ \E t \in ExecTargets : TargetReturn(t)
    \/ ExecuteCancel
    \/ ExecuteDone

SpecExecute == InitExecute /\ [][NextExecute]_vars

\* The port-forward command with connections coming to the pool.
NextPool ==
    \/ NextForward
    \/ \E backend \in Ports \cup {None} : PoolAccept(backend)
    \/ \E c \in 1..MaxConns : ConnEnd(c)

SpecPool == InitForward /\ [][NextPool]_vars

NextPorts ==
    \/ \E t \in Targets : PortRead(t)
    \/ \E t \in Targets : PortWrite(t)
    \/ \E t \in Targets : PortPass(t)

SpecPorts == InitPorts /\ [][NextPorts]_vars

NextRestart ==
    \/ \E t \in Targets : JobGet(t)
    \/ \E t \in Targets : JobGetFail(t)
    \/ \E t \in Targets : JobDelete(t)
    \/ \E t \in Targets : JobDeleteFail(t)
    \/ \E t \in Targets : JobCreate(t)
    \/ \E t \in Targets : JobCreateFail(t)

SpecRestart == InitRestart /\ [][NextRestart]_vars

NextEnv ==
    \/ EnvNext
    \/ EnvReturn

SpecEnv == InitEnv /\ [][NextEnv]_vars

TypeOK ==
    /\ cmd \in {"log", "forward"}
    /\ pc \in {"watch", "loop", "delete", "close", "range", "rangeClose",
             "wait", "returned", "panic"}
    /\ nEvents \in 0..MaxEvents
    /\ Len(streaming) <= MaxStreams
    /\ Len(forwarding) <= MaxEvents
    /\ runE \in {"execute", "poolDone", "returned"}
    /\ runErr \in {"none", "nil", "error"}
    /\ poolStopped \in BOOLEAN
    /\ forwardStop \in {None} \cup (1..MaxEvents)

\* ================================================================ claims
StreamIds == 1..Len(streaming)
TunnelIds == 1..Len(forwarding)

StreamsOf(u, c) ==
    {s \in StreamIds : streaming[s].uid = u /\ streaming[s].container = c}

\* follow sessions of a pod container that were started and have not ended
FollowSessions(u, c) ==
    {s \in StreamsOf(u, c) :
        streaming[s].running /\ streaming[s].pc # "done"}

\* one-shot (bounded) reads started for a pod container
OneShots(u, c) == {s \in StreamsOf(u, c) : ~streaming[s].running}

\* tunnel sessions of a pod that were started and have not ended
Tunnels(u) ==
    {s \in TunnelIds : forwarding[s].uid = u /\ forwarding[s].pc # "done"}

\* C1: in Logger.Log at most one follow session per (pod UID, selected
\* container) is active at any instant, in particular after two Running
\* events delivered back to back for an untracked UID.
C1_OneFollowSession ==
    \A u \in UIDs, c \in Containers : Cardinality(FollowSessions(u, c)) <= 1

\* C2: in the port-forward reconciler at most one tunnel session exists per
\* pod UID at any instant: the sessions alive for a UID are exactly the entry
\* of activeForwarding for it, an entry is stored only where none is present,
\* and an entry is deleted only by the session it names, as that session ends.
C2_Alive ==
    \A u \in UIDs :
        /\ Cardinality(Tunnels(u)) <= 1
        /\ Tunnels(u) = {activeForwarding[u]} \ {None}

C2_Step ==
    \A u \in UIDs :
        /\ (/\ activeForwarding'[u] # activeForwarding[u]
            /\ activeForwarding'[u] # None)
              => /\ activeForwarding[u] = None
                 /\ Tunnels(u) = {}
                 /\ forwarding' = Append(forwarding,
                        [uid |-> u, pc |-> "go", port |-> None])
                 /\ activeForwarding'[u] = Len(forwarding')
        /\ (/\ activeForwarding[u] # None
            /\ activeForwarding'[u] # activeForwarding[u])
              => /\ activeForwarding'[u] = None
                 /\ forwarding[activeForwarding[u]].pc # "done"
                 /\ forwarding'[activeForwarding[u]].pc = "done"

\* C2: in the port-forward reconciler at most one tunnel per pod UID is
\* alive at any instant; an entry is stored only for an absent UID and is
\* removed only by the tunnel that owns it.
C2_OneTunnelPerPod == [](C2_Alive) /\ [][C2_Step]_vars

\* a second tunnel runs for a pod whose first tunnel has ended
C2_Witness ==
    \E s, t \in TunnelIds :
        /\ s < t
        /\ forwarding[s].uid = forwarding[t].uid
        /\ forwarding[s].pc = "done"
        /\ forwarding[t].pc = "listen"
        /\ activeForwarding[forwarding[t].uid] = t

\* C3: a reconcile call (Logger.Log, the port-forward closure) has returned
\* only if every session goroutine it started has finished.
C3_NoSessionOutlivesCall ==
    pc = "returned" =>
        /\ \A s \in StreamIds : streaming[s].pc = "done"
        /\ \A s \in TunnelIds : forwarding[s].pc = "done"

\* Logger.Log has returned nil after following and reading logs
C3_Witness ==
    /\ pc = "returned"
    /\ err = "nil"
    /\ \E s, t \in StreamIds :
          /\ streaming[s].end \in {"own", "cancel"}
          /\ streaming[t].end = "logPod"

\* C4: once the event stream has ended (normal close or cancellation) the
\* reconciler has cancelled every session still in its tracking map, and it
\* returns only after all of them have completed; for both reconcilers.
C4_TeardownCancelsTracked ==
    pc \in {"wait", "returned"} =>
        /\ \A u \in UIDs :
              activeStreams[u] # None => StreamCtxDone(activeStreams[u])
        /\ \A u \in UIDs :
              activeForwarding[u] # None => activeForwarding[u] \in closed
        /\ pc = "returned" => C3_NoSessionOutlivesCall

\* C5: for a pod whose events are Added(Pending), Modified(Running), Deleted:
\* no session while Pending; exactly one follow session per selected
\* container from Running on; once Deleted is processed every session of the
\* pod has had its cancel function called and the UID is no map entry.
C5_PendingRunningDeleted ==
    \A u \in UIDs :
        /\ scenario[u] = 1 => \A c \in Containers : StreamsOf(u, c) = {}
        /\ scenario[u] \in {2, 3} =>
              \A c \in Containers :
                  /\ OneShots(u, c) = {}
                  /\ Cardinality(StreamsOf(u, c)) =
                         IF c \in selected THEN 1 ELSE 0
        /\ (scenario[u] = 3 /\ deleting # u) =>
              /\ activeStreams[u] = None
              /\ \A c \in Containers : StreamsOf(u, c) \subseteq cancelled

IsTerminal(phase) == phase = PodSucceeded \/ phase = PodFailed

\* C6: a pod first seen in phase Succeeded or Failed has, over the whole
\* event sequence, exactly one one-shot read per selected container, its UID
\* is never in the tracking map and the forwarding pool is never touched.
C6_TerminalOneShot ==
    \A u \in UIDs :
        IsTerminal(firstPhase[u]) =>
            /\ \A c \in selected : Cardinality(OneShots(u, c)) = 1
            /\ activeStreams[u] = None
            /\ pool = {}

\* C7: a Deleted or Error event for an untracked pod UID starts no session
\* and leaves the tracking map unchanged, whatever the phase; for both
\* reconcilers.
C7_Step ==
    \A e \in PodEvents :
        e.type \in {Deleted, Error} =>
            /\ (LogEvent(e) /\ activeStreams[e.uid] = None)
                  => UNCHANGED <<streaming, activeStreams>>
            /\ (ForwardEvent(e) /\ activeForwarding[e.uid] = None)
                  => UNCHANGED <<forwarding, activeForwarding>>

\* C7: a Deleted or Error event for a UID that is not tracked changes
\* neither the sessions nor the tracking map, in both reconcilers.
C7_UntrackedDeletedIgnored == [][C7_Step]_vars

\* C8: in Logger.Log an Added or Modified event in phase Pending or Unknown
\* starts no session and leaves the tracking map unchanged, tracked or not.
C8_Step ==
    \A e \in PodEvents :
        (e.type \in {Added, Modified} /\ e.phase \in {PodPending, PodUnknown}
            /\ LogEvent(e))
        => UNCHANGED <<streaming, activeStreams>>

\* C8: in Logger.Log an Added or Modified event of a pod in phase Pending or
\* Unknown starts no session and leaves the tracking map unchanged.
C8_PendingUnknownIgnored == [][C8_Step]_vars

\* C9: in the port-forward reconciler a Deleted or Error event for a tracked
\* pod UID, in any phase, closes the stop channel of that pod's tunnel, and
\* the UID is removed from the tracking map when that tunnel has ended. The
\* loop loads the channel on the event and closes it in its next step.
C9_Step ==
    /\ \A e \in PodEvents :
          (e.type \in {Deleted, Error} /\ ForwardEvent(e)
              /\ activeForwarding[e.uid] # None)
          => pc' = "close" /\ forwardStop' = activeForwarding[e.uid]
    /\ (pc = "close" /\ pc' # "close") => forwardStop \in closed'

C9_Removed ==
    \A s \in TunnelIds :
        forwarding[s].pc = "done" => activeForwarding[forwarding[s].uid] # s

\* C9: in the port-forward reconciler a Deleted or Error event of a tracked
\* pod closes its stop channel, and a finished tunnel is no map entry.
C9_TrackedDeletedClosed == [](C9_Removed) /\ [][C9_Step]_vars

\* C10: in Logger.Log a follow session that ended on its own is no longer
\* the entry of its pod UID in the tracking map.
C10_EndedSessionRemoved ==
    \A s \in StreamIds :
        (streaming[s].pc = "done" /\ streaming[s].end = "own")
            => activeStreams[streaming[s].uid] # s

\* steps of one tunnel session between two states
TunnelAdds(s) == forwarding[s].pc = "go" /\ forwarding'[s].pc = "listen"
TunnelRemoves(s) ==
    forwarding[s].pc = "listen" /\ forwarding'[s].pc = "deferred"
TunnelReturns(s) == forwarding[s].pc # "done" /\ forwarding'[s].pc = "done"

C11_Ports ==
    \A s \in TunnelIds :
        /\ forwarding[s].pc = "go" => forwarding[s].port = None
        /\ forwarding[s].pc \in {"listen", "deferred"} =>
              forwarding[s].port \in Ports

C11_Step ==
    /\ \A s \in TunnelIds :
          /\ TunnelAdds(s) =>
                /\ forwarding'[s].port \in Ports
                /\ pool' = pool \cup {forwarding'[s].port}
          /\ TunnelRemoves(s) =>
                /\ forwarding'[s].port = forwarding[s].port
                /\ pool' = pool \ {forwarding[s].port}
          /\ TunnelReturns(s) =>
                IF forwarding[s].pc = "go"
                THEN forwarding'[s].port = None /\ pool' = pool
                ELSE /\ forwarding[s].pc = "deferred"
                     /\ forwarding'[s].port = forwarding[s].port
                     /\ pool' = pool
          /\ forwarding[s].pc = "listen" => forwarding'[s].pc # "done"
    /\ pool' # pool =>
          \E s \in TunnelIds : TunnelAdds(s) \/ TunnelRemoves(s)

\* C11: a tunnel session adds one backend and, on every exit path, removes
\* that same backend from the pool before it returns; a session that gets no
\* free port returns without any Add or Remove; nothing else changes the pool.
C11_BackendRemovedByOwner == [](C11_Ports) /\ [][C11_Step]_vars

\* one session returned after Add and Remove, another without a free port
C11_Witness ==
    \E s, t \in TunnelIds :
        /\ forwarding[s].pc = "done" /\ forwarding[s].port # None
        /\ forwarding[t].pc = "done" /\ forwarding[t].port = None
        /\ pool = {}

\* a session ends without having been asked to stop: its log read or stream
\* failed or ended, it got no free port, or its port-forward returned
StreamFails(s) ==
    /\ streaming[s].pc # "done"
    /\ streaming'[s].pc = "done"
    /\ ~StreamCtxDone(s)

TunnelFails(s) ==
    /\ forwarding[s].pc \in {"go", "listen"}
    /\ forwarding'[s].pc \in {"deferred", "done"}
    /\ s \notin closed

C12_Step ==
    /\ \A s \in StreamIds :
          StreamFails(s) =>
              /\ UNCHANGED <<pc, err, nEvents>>
              /\ \A u \in UIDs \ {streaming[s].uid} :
                    activeStreams'[u] = activeStreams[u]
              /\ \A t \in StreamIds :
                    streaming[t].uid # streaming[s].uid =>
                        /\ streaming'[t] = streaming[t]
                        /\ t \in cancelled' <=> t \in cancelled
    /\ \A s \in TunnelIds :
          TunnelFails(s) =>
              /\ UNCHANGED <<pc, err, nEvents, closed>>
              /\ \A u \in UIDs \ {forwarding[s].uid} :
                    activeForwarding'[u] = activeForwarding[u]
              /\ \A t \in TunnelIds :
                    forwarding[t].uid # forwarding[s].uid =>
                        forwarding'[t] = forwarding[t]

\* C12: the failure of one session (log read or stream, free port,
\* port-forward) leaves the reconcile call where it is, still consuming
\* events, and neither cancels nor untracks the session of another pod.
C12_SessionFailureIsLocal == [][C12_Step]_vars

\* after the failure of one pod's session the loop is still running and
\* another pod's session, started later, is tracked and not asked to stop
C12_Witness ==
    /\ pc = "loop"
    /\ \/ \E s, t \in StreamIds :
              /\ s < t
              /\ streaming[s].end = "own"
              /\ streaming[t].uid # streaming[s].uid
              /\ streaming[t].pc = "streamPod"
              /\ activeStreams[streaming[t].uid] = t
              /\ t \notin cancelled
       \/ \E s, t \in TunnelIds :
              /\ s < t
              /\ forwarding[s].pc = "done"
              /\ s \notin closed
              /\ forwarding[t].uid # forwarding[s].uid
              /\ forwarding[t].pc = "listen"
              /\ activeForwarding[forwarding[t].uid] = t
              /\ t \notin closed

\* the reconcile call has consumed, started and registered nothing
NothingDone ==
    /\ nEvents = 0
    /\ streaming = <<>>
    /\ forwarding = <<>>
    /\ cancelled = {} /\ closed = {} /\ pool = {}
    /\ \A u \in UIDs : activeStreams[u] = None /\ activeForwarding[u] = None

C13_Step ==
    (pc = "watch" /\ pc' # "watch") =>
        \/ pc' = "loop" /\ err' = err          \* the watch is established
        \/ /\ pc' = "returned"
           /\ err' = "error"
           /\ NothingDone'

C13_Failed == err = "error" => (pc = "returned" /\ NothingDone)

\* C13: when the pod watch cannot be established the reconcile call leaves
\* at once with a non-nil error, no event consumed, no session started and
\* nothing registered (Logger.Log and the port-forward closure).
C13_WatchFailureReturned == [](C13_Failed) /\ [][C13_Step]_vars

\* the reconcile call returned the error of resource.WatchPods
C13_Witness == pc = "returned" /\ err = "error" /\ nEvents = 0

C14_Step ==
    \A s \in TunnelIds :
        TunnelEstablishFail(s) => (err' = "error" /\ pc' # "loop")

\* C14: when the tunnel to a pod cannot be established (listenPortForward
\* fails at transport or dial) the error goes to the caller of the reconcile
\* call, which stops consuming events.
C14_TunnelSetupFailureAborts == [][C14_Step]_vars

\* C15: when the pod watch of the target cannot be established, the
\* port-forward command ends with a non-zero outcome: RunE, once returned,
\* has returned a non-nil error.
C15_FatalErrorFailsCommand ==
    (cmd = "forward" /\ runE = "returned" /\ err = "error") =>
        runErr = "error"

\* the command has wound down: the reconciler returned, no tunnel is left
\* running or tracked, the pool signalled Done and RunE returned
C16_Goal ==
    /\ pc = "returned"
    /\ \A s \in TunnelIds : forwarding[s].pc = "done"
    /\ \A u \in UIDs : activeForwarding[u] = None
    /\ pool = {}
    /\ poolStopped
    /\ runE = "returned"

\* C16: after an interrupt cancels the root context of the port-forward
\* command, eventually the reconciler has returned, every tunnel session has
\* been stopped and has finished, the pool has signalled Done and RunE has
\* returned.
C16_InterruptWindsDown == ctxDone ~> C16_Goal

C16_ExceptPanic == ctxDone ~> (C16_Goal \/ pc = "panic")

\* what outputLog did with the lines scanned so far
Scanned == {scan.done[i] : i \in 1..Len(scan.done)}

\* C17: outputLog classifies each line, then applies the threshold, then the
\* pattern: a line whose colour is above the threshold is dropped and the
\* pattern is not consulted; otherwise it is emitted when no pattern is set,
\* and with a pattern exactly when (line matches) differs from invertRegexp.
C17_FilterOrder ==
    \A d \in Scanned :
        LET above == /\ scan.logger.colorFilter # None
                     /\ d.line.color # None
                     /\ d.line.color > scan.logger.colorFilter
            emitted == d.std # "-"
        IN  IF above THEN ~emitted /\ ~d.matched
            ELSE IF ~scan.logger.logRegexp THEN emitted /\ ~d.matched
            ELSE /\ d.matched
                 /\ emitted <=> (d.line.match # scan.logger.invertRegexp)

\* with an inverted pattern and a threshold, one line was dropped by the
\* threshold and a non-matching line below it was emitted
C17_Witness ==
    /\ scan.logger.logRegexp /\ scan.logger.invertRegexp
    /\ scan.logger.colorFilter # None
    /\ \E d, e \in Scanned :
          /\ d.std = "-" /\ ~d.matched /\ d.line.match
          /\ e.std = "FormatGrep" /\ ~e.line.match

\* the closure of target t takes a step
TargetSteps(t) == exec'.closure[t] # exec.closure[t]

C18_Step ==
    \A t \in ExecTargets :
        TargetSteps(t) =>
            /\ \A o \in ExecTargets \ {t} : exec'.closure[o] = exec.closure[o]
            /\ ctxDone' = ctxDone
            /\ ~exec.done /\ ~exec'.done

C18_Complete ==
    exec.done => \A t \in ExecTargets : exec.closure[t].pc = "returned"

\* C18: with several targets each closure works on its own tracking map and
\* session group; a step of one target, its failure included, changes
\* nothing of another target and does not cancel the shared context; and
\* Execute is complete only when the closure has returned for every target.
C18_TargetsIsolated == [](C18_Complete) /\ [][C18_Step]_vars

\* the isolation holds for every step but the panic
C18_ExceptPanic ==
    [][(\A t \in ExecTargets : exec'.closure[t].pc # "panic") => C18_Step]_vars

\* Execute completed: target two failed, target one ran sessions to the end
C18_Witness ==
    /\ exec.closure # <<>>
    /\ exec.done
    /\ exec.closure["two"].err = "error"
    /\ exec.closure["one"].err = "nil"
    /\ ~ctxDone

\* backends some session has added and not removed yet
LiveBackends ==
    {forwarding[s].port : s \in {t \in TunnelIds : forwarding[t].pc = "listen"}}

\* the relays that are open after the step and were not before it
C19_Accepted ==
    {c \in 1..Len(conns') :
        conns'[c].open /\ (c > Len(conns) \/ ~conns[c].open)}

C19_Step ==
    /\ \A c \in C19_Accepted :
          /\ conns'[c].backend \in LiveBackends
          /\ conns'[c].backend \in pool
          /\ conns'[c].backend \in RemovedBackends =>
                 \E s \in TunnelIds :
                     /\ forwarding[s].port = conns'[c].backend
                     /\ forwarding[s].pc = "listen"
    /\ \A c \in 1..Len(conns) :
          conns[c].open =>
              /\ conns'[c] = conns[c] \/ conns'[c] = ConnEnded
              /\ pool' # pool => conns'[c] = conns[c]

\* an open relay bound to a backend removed before it was accepted is bound
\* to one a later session has added again
C19_NoRouteToRemoved ==
    \A c \in 1..Len(conns) :
        (conns[c].open /\ conns[c].backend \in conns[c].removed) =>
            Cardinality({s \in TunnelIds :
                            forwarding[s].port = conns[c].backend}) >= 2

\* C19: a connection accepted after Remove(A) has returned (and A not added
\* again) is never routed to A, while a connection bound to A before the
\* removal keeps its binding and is not ended by the removal.
C19_RoutingStable == [](C19_NoRouteToRemoved) /\ [][C19_Step]_vars

\* a connection bound to A before the session removed A is still open, and
\* a connection accepted after that removal is bound to another backend
C19_Witness ==
    /\ Len(conns) = 2
    /\ conns[1].open
    /\ conns[1].backend \in Ports
    /\ conns[1].backend \notin conns[1].removed
    /\ conns[1].backend \notin pool
    /\ \A s \in TunnelIds :
          forwarding[s].port = conns[1].backend =>
              forwarding[s].pc \in {"deferred", "done"}
    /\ conns[2].open
    /\ conns[1].backend \in conns[2].removed
    /\ conns[2].backend \in Ports \ {conns[1].backend}

C20_Step ==
    \A e \in PodEvents :
        (/\ LogEvent(e)
         /\ e.uid \in terminated
         /\ activeStreams[e.uid] = None
         /\ IsTerminal(e.phase))
        => streaming' = streaming

\* C20: in Logger.Log, once the follow session of a tracked pod has been
\* cancelled and its entry removed because the pod entered Succeeded or
\* Failed, a later event of that pod in a terminal phase (Modified, or the
\* Deleted that carries the phase) starts no one-shot log read.
C20_NoDoubleFetch == [][C20_Step]_vars

\* C21: in the port-forward reconciler no stop channel is closed twice:
\* neither the loop nor the end-of-stream teardown ever closes a channel
\* that is already closed (which panics).
C21_NoDoubleClose == cmd = "forward" => pc # "panic"

C22_Step ==
    \A e \in PodEvents :
        (/\ LogEvent(e)
         /\ activeStreams[e.uid] # None
         /\ e.type \in {Deleted, Error} \/ IsTerminal(e.phase))
        => \A s \in StreamIds :
               (/\ streaming[s].uid = e.uid
                /\ streaming[s].running
                /\ streaming[s].pc = "streamPod")
               => s \in cancelled'

\* C22: in Logger.Log a Deleted, Error, Succeeded or Failed event of a
\* tracked pod calls the cancel function of the follow session of every
\* selected container of the pod, not only of the one stored last.
C22_AllContainersCancelled == [][C22_Step]_vars

\* C23: every address of the pool's backend set was added by a tunnel
\* session that has not removed it and whose pod UID is still its entry in
\* the tracking map; an untracked pod has no backend in the pool.
C23_BackendsAreTracked ==
    \A a \in pool :
        \E s \in TunnelIds :
            /\ forwarding[s].port = a
            /\ forwarding[s].pc = "listen"
            /\ activeForwarding[forwarding[s].uid] = s

\* one session has removed its backend and left the map while another
\* pod's session still has its backend in the pool
C23_Witness ==
    \E s, t \in TunnelIds :
        /\ forwarding[s].pc = "done" /\ forwarding[s].port \in Ports
        /\ activeForwarding[forwarding[s].uid] = None
        /\ forwarding[t].pc = "listen"
        /\ forwarding[t].port # forwarding[s].port
        /\ pool = {forwarding[t].port}

\* C24: once the reconcile call of the target has returned, the port-forward
\* command eventually returns, interrupt or not: the wait on pool.Done()
\* after clients.Execute completes.
C24_CommandReturns ==
    (cmd = "forward" /\ pc = "returned") ~> (runE = "returned")

\* C25: in the variant with one local port per pod, the k-th tunnel started
\* in a run gets <local_port> + k, so that all tunnels have distinct ports,
\* also when the closures of several targets start tunnels concurrently.
C25_DistinctLocalPorts ==
    /\ \A k \in 1..Len(ports.given) : ports.given[k] = k
    /\ \A j, k \in 1..Len(ports.given) :
          j # k => ports.given[j] # ports.given[k]

\* the calls Get, Delete, Create in that order, up to the n-th
C26_Calls(n) == SubSeq(<<"Get", "Delete", "Create">>, 1, n)

\* C26: restarting a job runs Get, Delete, Create in that order, stops at
\* the first call that fails and returns its error; and when it returned an
\* error the job that existed before the call still exists on the target.
C26_RestartAllOrNothing ==
    \A t \in Targets :
        /\ job[t].calls = C26_Calls(Len(job[t].calls))
        /\ job[t].err = "nil" => job[t].calls = C26_Calls(3)
        /\ (job[t].err = "error" /\ job[t].existed) => job[t].exists

\* what the claim says getInlineEnv returns for the variable v
C27_Expected(v, cm, sec) ==
    IF v.Value # "" THEN v.Value
    ELSE CASE v.ValueFrom.kind = "ConfigMapKeyRef" ->
                  getValueFromRef(cm, "configmap", v.ValueFrom.arg)
           [] v.ValueFrom.kind = "SecretKeyRef" ->
                  getValueFromRef(sec, "secret", v.ValueFrom.arg)
           [] v.ValueFrom.kind = "FieldRef" -> getEnvFieldRef(v.ValueFrom.arg)
           [] v.ValueFrom.kind = "ResourceFieldRef" ->
                  getEnvResourceRef(v.ValueFrom.arg)
           [] OTHER -> ""

\* apart from the nil ValueFrom, every variable gets the value described
C27_ExceptPanic ==
    \A k \in 1..(env.next - 1) :
        (\A j \in (k + 1)..(env.next - 1) : env.vars[j].Name # env.vars[k].Name)
        => /\ env.vars[k].Name \in DOMAIN env.inline
           /\ env.inline[env.vars[k].Name] =
                  C27_Expected(env.vars[k], env.configMaps, env.secrets)

\* C27: getInlineEnv returns a string without failing for every variable of
\* the container, a variable with an empty Value and a nil ValueFrom
\* included: the literal value when not empty, otherwise the value the
\* reference resolves to, or the empty string when there is no reference.
C27_InlineEnvNeverFails ==
    /\ env.pc # "panic"
    /\ \A k \in 1..(env.next - 1) :
          (\A j \in (k + 1)..(env.next - 1) :
               env.vars[j].Name # env.vars[k].Name)
          => /\ env.vars[k].Name \in DOMAIN env.inline
             /\ env.inline[env.vars[k].Name] =
                    C27_Expected(env.vars[k], env.configMaps, env.secrets)
    /\ env.pc = "returned" => env.next = Len(env.vars) + 1

\* C28: with dryRun set, Logger.Log starts no log session, follow or
\* one-shot, and never inserts into the tracking map, whatever the pod
\* events; it only reports the selected containers of the pods it finds.
C28_DryRunStartsNothing ==
    dryRun =>
        /\ streaming = <<>>
        /\ \A u \in UIDs : activeStreams[u] = None
        /\ cancelled = {}
        /\ \A f \in found : f.container \in selected

\* a dry run has reported a selected container of a pod
C28_Witness == dryRun /\ found # {} /\ nEvents > 1
====
